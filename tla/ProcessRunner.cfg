SPECIFICATION FairSpec
CONSTANT MaxChunks = 3
INVARIANTS
  TypeOK OutputInOrder FinishedIsComplete ResultsAreHonest NothingLeft
PROPERTY CallEnds
