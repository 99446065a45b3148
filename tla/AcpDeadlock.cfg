SPECIFICATION FairSpec
CONSTANTS
  Submitters = {u1}
  Kinds = {"elicitation"}
  Talkative = FALSE
  Deaths = FALSE
  Faulty = FALSE
  MaxChunks = 1
  MaxReplayed = 0
  MaxQuestions = 1
PROPERTIES AnsweredTurnEnds
CHECK_DEADLOCK FALSE
