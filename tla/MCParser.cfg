SPECIFICATION FairSpec
CONSTANTS
  Texts <- MCTexts
  Chunk = 3
INVARIANTS
  TypeOK
  AcceptsTheGrammar
  CodeComputesTree
  FreedOnce
PROPERTY
  Ends
