SPECIFICATION MCSpec
CONSTANTS
  CPUs = {c1, c2, c3, c4}
  PrimCpus = {"c1", "c2", "c3"}
  MaxRecursivityDepth = 2
  ListHeads = {"l1", "l2"}
  ListEntries = {"a", "b", "c"}
  Rank <- ListRank
  Space <- Blank
  Slash <- SlashChar
  NewLines <- LineEnds
  CaseBit = 16
  ModuleTexts <- ModuleContents
  CmdExit <- ExitCommand
  CmdMaxArgs = 2
  Texts <- ShortTexts
  WordParts <- WordPieces
  WordSize = 4
  Cells = 9
  NarrowBits = 3
  WideBits = 6
  Bases = {2, 3, 10}
  Directives <- SomeDirectives
  BufferSizes = {1, 2, 4, 6}
INVARIANT WriterExclusion
INVARIANT CountersExact
PROPERTY WriterProgress
INVARIANT PrimitivesSound
INVARIANT ListsAreSequences
INVARIANT StringsSound
