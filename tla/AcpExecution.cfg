SPECIFICATION FairSpec
CONSTANTS
  Submitters = {u1, u2, u3}
  Kinds = {"elicitation", "notification"}
  Talkative = TRUE
  Deaths = TRUE
  Faulty = TRUE
  MaxChunks = 2
  MaxReplayed = 1
  MaxQuestions = 2
INVARIANTS OutputInOrder OutputComplete AnswersMatch
PROPERTIES EndsOrIsStuck
CHECK_DEADLOCK FALSE
