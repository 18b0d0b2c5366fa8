----------------------------- MODULE MCConsole ------------------------------
(* An instance of Console: a client that types a word, a blank and then an  *)
(* empty line, and one whose line does not fit the buffer.                   *)
EXTENDS Console

TwoClients == {1, 2}
TwoTexts == << <<"word", "blank", "end", "end">>, <<"word", "word", "word", "end">> >>
=============================================================================
