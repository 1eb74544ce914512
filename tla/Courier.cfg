SPECIFICATION FairSpec
CONSTANTS
  MaxLines = 2
  Content = {"sender", "none", "blank", "bad"}
  Env = {"cut", "quit", "refuse"}
INVARIANTS TypeOK EndMeansAll
PROPERTIES Conversations 
CHECK_DEADLOCK FALSE
