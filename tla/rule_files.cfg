\* Every form of match and action, in files of up to three lines.
CONSTANTS
  Numbers <- Nums
  Lexicon <- Words
  NFilter = 10
  LbSize = 2
  Files <- SampleFiles
  Versions = {0, 1, 2}
  MaxTokens = 256
SPECIFICATION Spec
INVARIANTS ReadAsWritten ShownComesBack EntryCovers
CHECK_DEADLOCK FALSE
