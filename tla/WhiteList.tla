----------------------------- MODULE WhiteList ------------------------------
(* The white list file and the end of main's dispatch loop (main.c, and      *)
(* cli_script_process in cli.c): in every turn the size of white_list.txt is *)
(* compared with the last one, and the file is run as a script when they     *)
(* differ.  Editors change the file at any time, in place or by another one  *)
(* of the same name.                                                         *)
(*                                                                           *)
(* A version of the file is a sequence of blocks: a block is what one read   *)
(* of the script's stream takes, and its commands are run before the next    *)
(* read.  The clients' turn is between any two looks at the size.            *)
EXTENDS Integers, Sequences

CONSTANTS
  Versions,  \* the contents the file can have, each once
  Blocks,
  Content,   \* Content[v]: the blocks of a version
  Size,      \* Size[v]: its size in bytes
  Unset,     \* what st_size may be before the first fstat that succeeds
  None       \* no file

ASSUME WhiteListAssumption ==
  /\ None \notin Versions
  /\ Content \in [Versions -> Seq(Blocks)]
  /\ Size \in [Versions -> Nat]
  /\ Unset \subseteq Nat

VARIABLES
  file,       \* the version in the file named white_list.txt
  past,       \* the versions there have been
  pc,         \* main: "look", "open" or "read"
  st_size,    \* file_buf.st_size
  file_size,  \* the size at the look that ran the script last
  stream,     \* the version in the file that the script reads
  named,      \* the script reads the file that has the name
  loaded      \* the blocks run by the last script

watch_vars == <<file, past, pc, st_size, file_size, stream, named, loaded>>
disk == <<file, past>>

WatchTypeOK ==
  /\ file \in Versions \cup {None} /\ past \subseteq Versions
  /\ pc \in {"look", "open", "read"}
  /\ st_size \in Nat /\ file_size \in Nat
  /\ stream \in Versions \cup {None} /\ (stream # None <=> pc = "read")
  /\ named \in BOOLEAN /\ (named => pc = "read")
  /\ loaded \in Seq(Blocks)

WatchInit ==
  /\ file \in Versions \cup {None} /\ past = {file} \ {None}
  /\ pc = "look" /\ st_size \in Unset /\ file_size = 0
  /\ stream = None /\ named = FALSE /\ loaded = <<>>

-----------------------------------------------------------------------------
(* Editors. *)

fresh(v) == v \in Versions \ past /\ file' = v /\ past' = past \cup {v}

\* The same file is written, which a script that is reading it sees.
rewrite(v) ==
  /\ file # None /\ fresh(v)
  /\ stream' = IF named THEN v ELSE stream
  /\ UNCHANGED <<pc, st_size, file_size, named, loaded>>

\* Another file gets the name; a script goes on with the one it has opened.
replace(v) ==
  /\ fresh(v)
  /\ named' = FALSE
  /\ UNCHANGED <<pc, st_size, file_size, stream, loaded>>

remove ==
  /\ file # None /\ file' = None /\ named' = FALSE
  /\ UNCHANGED <<past, pc, st_size, file_size, stream, loaded>>

-----------------------------------------------------------------------------
(* main. *)

\* open and fstat, which leaves file_buf as it was when there is no file.
current_file_size == IF file = None THEN st_size ELSE Size[file]

\* (slip: the size is not remembered)
KeepsOldSize == file_size
NewSize == current_file_size

look_at_size ==
  /\ pc = "look"
  /\ st_size' = current_file_size
  /\ IF current_file_size # file_size
     THEN file_size' = NewSize /\ pc' = "open"
     ELSE UNCHANGED <<file_size, pc>>
  /\ UNCHANGED <<disk, stream, named, loaded>>

\* cli_script_process: fopen, -EIO when there is no file by now.
open_script ==
  /\ pc = "open"
  /\ IF file = None
     THEN pc' = "look" /\ UNCHANGED <<stream, named, loaded>>
     ELSE pc' = "read" /\ stream' = file /\ named' = TRUE /\ loaded' = <<>>
  /\ UNCHANGED <<disk, st_size, file_size>>

read_script ==
  /\ pc = "read" /\ Len(loaded) < Len(Content[stream])
  /\ loaded' = Append(loaded, Content[stream][Len(loaded) + 1])
  /\ UNCHANGED <<disk, pc, st_size, file_size, stream, named>>

\* (slip: the size is taken again after the script)
CloseAndStat ==
  /\ pc = "read" /\ Len(loaded) >= Len(Content[stream])
  /\ pc' = "look" /\ stream' = None /\ named' = FALSE
  /\ file_size' = current_file_size
  /\ UNCHANGED <<disk, st_size, loaded>>

close_script ==
  /\ pc = "read" /\ Len(loaded) >= Len(Content[stream])
  /\ pc' = "look" /\ stream' = None /\ named' = FALSE
  /\ UNCHANGED <<disk, st_size, file_size, loaded>>

-----------------------------------------------------------------------------
Main == look_at_size \/ open_script \/ read_script \/ close_script

Editor == remove \/ \E v \in Versions : rewrite(v) \/ replace(v)

WatchNext == Main \/ Editor

\* The main lcore runs; nobody has to edit.
WatchSpec == WatchInit /\ [][WatchNext]_watch_vars /\ WF_watch_vars(Main)

-----------------------------------------------------------------------------
(* Properties. *)

\* What the look relies on: versions differ in size, only one without blocks has none,
\* and the size a missing file seems to have is not that of one to come.
Distinguishable ==
  /\ \A v, w \in Versions : Size[v] = Size[w] => v = w
  /\ \A v \in Versions : Size[v] = 0 => Content[v] = <<>>
  /\ \A v \in Versions : Size[v] \in Unset => Size[v] = 0

\* When the look finds the size it remembers, the file is what was run last, all of it
\* and nothing else, whatever was edited between the look before, the opening and the reads.
SameSizeSameFile ==
  pc = "look" /\ file # None /\ Size[file] = file_size => loaded = Content[file]

\* When the edits end and a file is there, it is the file that was run last.
FileLoaded == <>[](file # None => loaded = Content[file])

\* When the edits end, the file is not run over and over.
Rests == <>[](pc = "look")

-----------------------------------------------------------------------------
(* The inductive invariant behind SameSizeSameFile. *)

\* The size remembered is the one seen last, but before the first look.
FirstLook ==
  \/ st_size = file_size
  \/ st_size \in Unset /\ file_size = 0 /\ pc = "look" /\ loaded = <<>>

\* It is that of a version there has been.
SizeSeen == file_size \in Unset \cup {0} \/ \E v \in past : Size[v] = file_size

\* Nothing is run before a size other than 0 is seen.
NothingRun ==
  file_size = 0 /\ (\A v \in past : Size[v] # 0) => pc = "look" /\ loaded = <<>>

\* A script that runs for the size of the present file reads that file.
ReadsFile ==
  pc = "read" /\ file # None /\ Size[file] = file_size =>
    /\ named /\ stream = file
    /\ Len(loaded) <= Len(Content[file])
    /\ \A k \in 1..Len(loaded) : loaded[k] = Content[file][k]

FileInv ==
  /\ file # None => file \in past
  /\ FirstLook /\ SizeSeen /\ NothingRun /\ ReadsFile /\ SameSizeSameFile
=============================================================================
