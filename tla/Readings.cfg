SPECIFICATION ViewSpec
CONSTANTS
  Harnesses = {"pi", "omp", "claude"}
  Texts = {a, b, c}
  Answers = {x, y, z}
  MaxTurns <- MCMaxTurns
  MaxLoads = 1
  Chunks = 2
  Limit = 5
  Paced = {"pi"}
  Repeats = {"claude"}
  BusyPaging = {"omp"}
INVARIANTS
  EachTurnShowsItsReply
  FeedIsTheConversation
  
  JournalsAreReadWhole
SYMMETRY AnyText
CHECK_DEADLOCK FALSE
