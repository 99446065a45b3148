SPECIFICATION FairSpec
CONSTANT Invocations = {i1, i2}
INVARIANTS TypeOK EntriesMatch UndisturbedFinishes OrphansInterrupted
PROPERTIES CompletedOnlyInWindow ExecutionEnds
