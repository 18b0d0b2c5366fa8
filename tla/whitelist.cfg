\* Every order of four versions of the file, of different sizes.
CONSTANTS
  Versions <- FourVersions
  Blocks <- SixBlocks
  Content <- Contents
  Size <- Sizes
  Unset <- NotASize
  None = None
SPECIFICATION WatchSpec
INVARIANTS SameSizeSameFile
PROPERTIES FileLoaded Rests
