SPECIFICATION FairSpec
CONSTANTS
  kCell = 2
  Sizes = {1, 2, 3}
  Length = 3
  MaxReqs = 3
  Room = 11
  Window = 4
INVARIANTS StreamsAreWhole AnswersMatch
PROPERTIES GoodIsAnswered AnswerIsFound GeneratorGoesOn
