CONSTANTS
  di = di
  ai = ai
  r1 = r1
  r2 = r2
  Words <- MCWords
  Readers <- MCReaders
  Values = {0, 1}
  Zero = 0
  MaxWrites = 2
  InOrder <- MCInOrder
SPECIFICATION FairSpec
PROPERTIES
  AtomicSpec
  WholeUnlessOvertaken
  ReadReturns
