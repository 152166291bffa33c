SPECIFICATION Spec
CONSTANTS
  Workers = {w1, w2}
  Programs <- MCPrograms
  Questions <- MCQuestions
  Hooks <- MCHooks
  Seed <- MCSeed
  MaxBuilders = 2
  MaxSaves = 2
  MaxAsks = 1
  MaxTx = 1
INVARIANTS TypeOK VersionWonOnce
PROPERTIES ImplementsRowStore AnswersExact TxAtomic
SYMMETRY Alike
CHECK_DEADLOCK FALSE
