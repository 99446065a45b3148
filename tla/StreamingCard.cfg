SPECIFICATION FairCardSpec
CONSTANT MaxChunks = 3
INVARIANT OneCard
PROPERTIES Typewriter ShownOrRefused
CHECK_DEADLOCK FALSE
